---- MODULE Spec2Model ----
(***************************************************************************)
(* Model of the quality-parameter search of find_crf.py                    *)
(* (find_optimal_quality_param with its probes encode_distorted_sample and *)
(* run_vmaf) and of the batch runner of ab-av1-gui.py (start_encoding,     *)
(* stop_encoding, encoding_worker, on_encoding_finished).                  *)
(***************************************************************************)
EXTENDS Integers, Sequences, FiniteSets, TLC

\* ------------------------------------------------------------------------
\* Bounds of the model
\* ------------------------------------------------------------------------
\* Quality parameters of the small domains range over 0..MaxParam.
MaxParam == 3
\* max_iterations ranges over 0..MaxIter in the small domains.
MaxIter == 3
\* Scores and targets range over DEFAULT_TARGET_VMAF +/- MaxDelta.
MaxDelta == 1
\* The queue listbox of the GUI holds at most MaxQueue files.
MaxQueue == 2
\* start_encoding is accepted at most MaxRuns times.
MaxRuns == 2

\* ------------------------------------------------------------------------
\* Program constants
\* ------------------------------------------------------------------------
DEFAULT_TARGET_VMAF == 95
QUALITY_PARAM_SEARCH_RANGE_MIN == 0
QUALITY_PARAM_SEARCH_RANGE_MAX == 51
MAX_ITERATIONS == 10
\* Line 19: 0.5.  search_precision is counted in halves of a VMAF point.
SEARCH_PRECISION == 1

\* Python's None: the absent score of run_vmaf, and "nothing returned".
\* Scores matched by the pattern (\d+\.\d+) and the parameters are >= 0.
None == -1

Params == 0..MaxParam
Scores == (DEFAULT_TARGET_VMAF - MaxDelta)..(DEFAULT_TARGET_VMAF + MaxDelta)
Outcomes == Scores \cup {None}

\* What encode_distorted_sample returns: a bitrate in Mbps, or None when
\* the output of ffprobe is not a number (lines 182, 189-191).
Bitrates == {None, 8}
\* Durations in seconds and sizes of the original in MB; with them every
\* division of lines 295 and 298 is exact.
Durations == {100}
\* Values of --search-precision, in halves of a point: 0.0, 0.5 and 1.0.
Precisions == {0, SEARCH_PRECISION, 2 * SEARCH_PRECISION}
OriginalSizes == {0, 50}

Min2(a, b) == IF a <= b THEN a ELSE b
Max2(a, b) == IF a >= b THEN a ELSE b

VARIABLES
  \* ---- inputs of one call of find_optimal_quality_param
  init_min,        \* low_param as computed at line 260
  init_max,        \* high_param as computed at line 261
  target_vmaf,
  max_iterations,
  probe_fn,        \* the score run_vmaf yields for each encoded parameter
  duration,        \* props['duration'], line 252
  original_file_size_mb,
  arg_save_frames_to,  \* TRUE when --save-frames-to names a directory
  \* ---- locals of find_optimal_quality_param
  low_param,
  high_param,
  best_param,
  i,               \* iterations of the for loop started so far
  current_param,
  bitrate_mbps,    \* what encode_distorted_sample returned, line 283
  estimated_full_video_size_mb,
  percentage_of_original,
  save_frames_to,  \* the argument, FALSE once line 312 has set it to None
  pc,              \* "start" | "loop" | "encoded" | "done" | "exit"
  \* ---- observations
  encodes,         \* calls of encode_distorted_sample
  vmaf_runs,       \* calls of run_vmaf
  probed,          \* candidates handed to encode_distorted_sample, in order
  result,          \* the parameter returned, None before the return
  exit_code,       \* status of sys.exit, None while there was none
  encode_failed,   \* ffmpeg returned an error to encode_distorted_sample
  props_failed,    \* get_video_properties ended in sys.exit(1)
  sample_failed,   \* create_video_sample ended in sys.exit(1)
  frame_saved,     \* the iteration ran the frame extraction of line 337
  \* ---- the file system
  temp_dirs,       \* directories of tempfile.TemporaryDirectory on disk
  log_files,       \* log files of run_vmaf on disk
  frames_dir_exists,
  \* ---- a second call with the same arguments but for search_precision
  search_precision,
  run,
  first_result,
  first_probed,
  first_bitrate,   \* bitrate_mbps of the last iteration of the first call
  \* ---- AB_AV1_GUI: fields
  queue_listbox,       \* the files of the listbox, in order
  encoding_queue,      \* queue.Queue of files
  is_encoding,
  current_process,     \* index into procs, None for Python's None
  cancellation_token,  \* threading.Event: TRUE when set
  start_button,        \* TRUE when state="normal"
  stop_button,
  \* ---- AB_AV1_GUI: the worker thread and the UI thread
  worker_pc,           \* "none" | "while" | "get" | "popen" | "read" |
                       \* "clear" | "after" | "finish" | "dead"
  input_path,          \* the file the worker took from the queue
  files_processed,
  stop_pc,             \* position of the UI thread inside stop_encoding:
                       \* "idle" | "check" | "kill"
  finish_posted,       \* after(0, on_encoding_finished) is pending
  \* ---- the world outside
  procs,               \* external processes started so far, in order
  runs,                \* accepted calls of start_encoding
  queued_at_cancel     \* length of encoding_queue when the token was set
                       \* in this run, None while it was not

guiVars == <<queue_listbox, encoding_queue, is_encoding, current_process,
             cancellation_token, start_button, stop_button, worker_pc,
             input_path, files_processed, stop_pc, finish_posted, procs,
             runs, queued_at_cancel>>

searchVars == <<init_min, init_max, target_vmaf, max_iterations, probe_fn,
                duration, original_file_size_mb, arg_save_frames_to,
                low_param, high_param, best_param, i, current_param,
                bitrate_mbps, estimated_full_video_size_mb,
                percentage_of_original, save_frames_to, pc,
                encodes, vmaf_runs, probed, result, exit_code,
                encode_failed, props_failed, sample_failed, frame_saved,
                temp_dirs, log_files, frames_dir_exists,
                search_precision, run, first_result, first_probed,
                first_bitrate>>

vars == <<searchVars, guiVars>>

\* ------------------------------------------------------------------------
\* find_optimal_quality_param, pure parts
\* ------------------------------------------------------------------------
\* Variant: the upper value of a pair of adjacent values.
CandidateUpperOfPair(lo, hi) ==
  IF lo = hi THEN lo
  ELSE IF lo + 1 = hi THEN hi
  ELSE (lo + hi) \div 2

\* Lines 272-276: midpoint by floor division, the low end for a domain of
\* one or of two adjacent values.
Candidate(lo, hi) ==
  IF lo = hi THEN lo
  ELSE IF lo + 1 = hi THEN lo
  ELSE (lo + hi) \div 2

\* Line 355.
MeetsTarget(score, target) == score >= target

\* Variant: best_param takes the value low_param has after the narrowing.
BestAfterProbeStoresNext(score, best, cur, hi, target) ==
  IF score = None THEN best
  ELSE IF MeetsTarget(score, target)
       THEN IF cur < best \/ best = hi THEN cur + 1 ELSE best
       ELSE best

\* Variant: an absent score is handled as a score that meets the target.
BestAfterProbeAbsentMeets(score, best, cur, hi, target) ==
  IF score = None \/ MeetsTarget(score, target)
  THEN IF cur < best \/ best = hi THEN cur ELSE best
  ELSE best

\* Variant: best_param is the last candidate tried.
BestAfterProbeLastTried(score, best, cur, hi, target) == cur

\* Variant: every candidate that meets the target replaces best_param.
BestAfterProbeLatestMeeting(score, best, cur, hi, target) ==
  IF score # None /\ MeetsTarget(score, target) THEN cur ELSE best

\* Lines 347-362: best_param after the probe of cur returned score.
\* hi is high_param at the time of the update.
BestAfterProbe(score, best, cur, hi, target) ==
  IF score = None THEN best
  ELSE IF MeetsTarget(score, target)
       THEN IF cur < best \/ best = hi THEN cur ELSE best
       ELSE best

\* Variant: an absent score leaves low_param where it was.
LowAfterProbeStuckOnAbsent(score, lo, cur, target) ==
  IF score # None /\ MeetsTarget(score, target) THEN cur + 1 ELSE lo

\* Variant: a candidate that met the target stays in the domain.
LowAfterProbeKeepsCandidate(score, lo, cur, target) ==
  IF score = None THEN cur + 1
  ELSE IF MeetsTarget(score, target) THEN cur ELSE lo

\* Lines 349, 359: low_param after the probe.
LowAfterProbe(score, lo, cur, target) ==
  IF score = None \/ MeetsTarget(score, target) THEN cur + 1 ELSE lo

\* Variant: a score below the target keeps the candidate in the domain.
HighAfterProbeKeepsCandidate(score, hi, cur, target) ==
  IF score # None /\ ~MeetsTarget(score, target) THEN cur ELSE hi

\* Variant: an absent score lowers high_param as a score below the target
\* does.
HighAfterProbeAbsentLowers(score, hi, cur, target) ==
  IF score = None \/ ~MeetsTarget(score, target) THEN cur - 1 ELSE hi

\* Line 362: high_param after the probe.
HighAfterProbe(score, hi, cur, target) ==
  IF score # None /\ ~MeetsTarget(score, target) THEN cur - 1 ELSE hi

\* Variant: the estimate is left in megabits.
EstimatedFullVideoSizeInBits(bitrate, dur) ==
  IF bitrate = None THEN None ELSE bitrate * dur

\* Variant: an unparsable bitrate counts as a bitrate of 0.
EstimatedFullVideoSizeOfZero(bitrate, dur) ==
  IF bitrate = None THEN 0 ELSE (bitrate * dur) \div 8

\* Lines 288, 291-295: the estimate of the size of the full video, absent
\* without a bitrate.
EstimatedFullVideoSize(bitrate, dur) ==
  IF bitrate = None THEN None ELSE (bitrate * dur) \div 8

\* Lines 289, 297-298: the estimate as a percentage of the original, in
\* the order of the code: division first.
PercentageOfOriginal(estimate, original) ==
  IF estimate # None /\ original > 0
  THEN (estimate \div original) * 100
  ELSE None

\* Lines 304-312: save_frames_to after the directory was looked for and,
\* if missing, os.makedirs either made it (made) or raised OSError.
SaveFramesToAfterMakedirs(save, exists, made) ==
  save /\ (exists \/ made)

\* Lines 306-309: the directory of the frames after the same step.
FramesDirAfterMakedirs(save, exists, made) ==
  exists \/ (save /\ made)

\* Line 314: the iteration extracts a frame of the distorted sample.
SavesFrame(save, score, bitrate, estimate) ==
  save /\ score # None /\ bitrate # None /\ estimate # None

\* Variant: the directory is removed on a return only, as with mkdtemp and
\* a removal written after the loop.
TemporaryDirectoryExitOnReturnOnly(n, how) ==
  IF how = "return" THEN n - 1 ELSE n

\* Line 265: leaving the with block removes the directory, whether by the
\* return of line 369 or by the SystemExit of sys.exit(1).
TemporaryDirectoryExit(n, how) == n - 1

\* run_vmaf lines 203-204, 242-244: the log file is created and, on each
\* of the three ways out of the try block, removed.
RunVmafLogFiles(n, score) == (n + 1) - 1

\* Variant: the search also ends when the score of the candidate lies
\* within search_precision of the target.
RangeCollapsedOrPrecise(lo, hi) ==
  \/ lo > hi
  \/ /\ probe_fn[current_param] # None
     /\ 2 * (probe_fn[current_param] - target_vmaf) <= search_precision
     /\ 2 * (target_vmaf - probe_fn[current_param]) <= search_precision

\* Lines 350 and 364: the break out of the loop.  search_precision
\* (line 249) is read nowhere in find_optimal_quality_param.
RangeCollapsed(lo, hi) == lo > hi

\* Variant: low_param is kept from the previous call once one has returned.
StartLocalsStale(lo, hi) ==
  [low_param |-> IF result = None THEN lo ELSE low_param,
   high_param |-> hi,
   best_param |-> hi]

\* Lines 260-263: the locals at the start of a call, from its arguments.
StartLocals(lo, hi) ==
  [low_param |-> lo, high_param |-> hi, best_param |-> hi]

\* Variant: one iteration more than the cap.
LoopContinuesOffByOne(n, cap) == n <= cap

\* Line 271: for i in range(max_iterations) starts another iteration.
LoopContinues(n, cap) == n < cap

\* Variant: the failed encode is answered like an unparsable bitrate, by
\* returning None to the search.
OnEncodeErrorContinues == [pc |-> "encoded", exit_code |-> None]

\* encode_distorted_sample lines 186-188: CalledProcessError is answered by
\* sys.exit(1).
OnEncodeError == [pc |-> "exit", exit_code |-> 1]

StartSearch ==
  /\ result = None
  /\ exit_code = None
  /\ encode_failed = FALSE
  /\ low_param = StartLocals(init_min, init_max).low_param
  /\ high_param = StartLocals(init_min, init_max).high_param
  /\ best_param = StartLocals(init_min, init_max).best_param
  /\ i = 0
  /\ current_param = None
  /\ bitrate_mbps = None
  /\ estimated_full_video_size_mb = None
  /\ percentage_of_original = None
  /\ save_frames_to = arg_save_frames_to
  /\ pc = "start"
  /\ encodes = 0
  /\ vmaf_runs = 0
  /\ probed = << >>
  /\ props_failed = FALSE
  /\ sample_failed = FALSE
  /\ frame_saved = FALSE

\* ------------------------------------------------------------------------
\* Initial states
\* ------------------------------------------------------------------------
\* Small domains, every probe function over them, min > max included
\* (the command line accepts any two integers); the default target, which
\* the scores of Outcomes lie below, on and above; one input file, no
\* directory for frames.
InitSmall ==
  /\ init_min \in Params
  /\ init_max \in Params
  /\ target_vmaf = DEFAULT_TARGET_VMAF
  /\ max_iterations \in 0..MaxIter
  /\ probe_fn \in [Min2(init_min, init_max)..Max2(init_min, init_max) -> Outcomes]
  /\ duration = 100
  /\ original_file_size_mb = 50
  /\ arg_save_frames_to = FALSE
  /\ frames_dir_exists = FALSE

\* The input file and the --save-frames-to argument: sizes of the original
\* with and without a percentage, a directory for frames that exists, one
\* that does not, and none.
InitFiles ==
  /\ duration \in Durations
  /\ original_file_size_mb \in OriginalSizes
  /\ arg_save_frames_to \in BOOLEAN
  /\ frames_dir_exists \in (IF arg_save_frames_to THEN BOOLEAN ELSE {FALSE})

\* The default domain of the encoder table with a probe whose score is
\* 100 - candidate, targets around the default one, and the files of
\* InitFiles.
InitDefault ==
  /\ init_min = QUALITY_PARAM_SEARCH_RANGE_MIN
  /\ init_max = QUALITY_PARAM_SEARCH_RANGE_MAX
  /\ target_vmaf \in Scores
  /\ max_iterations \in {MAX_ITERATIONS - 4, MAX_ITERATIONS}
  /\ probe_fn = [c \in init_min..init_max |-> 100 - c]
  /\ InitFiles

\* AB_AV1_GUI.__init__, lines 21-25 and 97-101; the listbox is empty.
GuiConstructed ==
  /\ queue_listbox = << >>
  /\ encoding_queue = << >>
  /\ is_encoding = FALSE
  /\ current_process = None
  /\ cancellation_token = FALSE
  /\ start_button = TRUE
  /\ stop_button = FALSE
  /\ worker_pc = "none"
  /\ input_path = None
  /\ files_processed = 0
  /\ stop_pc = "idle"
  /\ finish_posted = FALSE
  /\ procs = << >>
  /\ runs = 0
  /\ queued_at_cancel = None

\* No temporary file of a search exists before the first one; the first
\* call runs with the default of --search-precision.
Init ==
  /\ InitSmall \/ InitDefault
  /\ search_precision = SEARCH_PRECISION
  /\ temp_dirs = 0
  /\ log_files = 0
  /\ StartSearch
  /\ run = 1
  /\ first_result = None
  /\ first_probed = << >>
  /\ first_bitrate = None
  /\ GuiConstructed

\* ------------------------------------------------------------------------
\* Actions
\* ------------------------------------------------------------------------
inputsUnchanged == UNCHANGED <<init_min, init_max, target_vmaf,
                               max_iterations, probe_fn, duration,
                               original_file_size_mb, arg_save_frames_to>>
rerunUnchanged == UNCHANGED <<search_precision, run, first_result,
                              first_probed, first_bitrate, guiVars>>
localsUnchanged == UNCHANGED <<low_param, high_param, best_param, i,
                               current_param, bitrate_mbps,
                               estimated_full_video_size_mb,
                               percentage_of_original, save_frames_to,
                               frame_saved, encodes, vmaf_runs, probed>>

\* Line 252, get_video_properties lines 93-128: ffprobe fails or its
\* output lacks a field, sys.exit(1) before any temporary file exists.
PropsFail ==
  /\ pc = "start"
  /\ pc' = "exit"
  /\ exit_code' = 1
  /\ props_failed' = TRUE
  /\ UNCHANGED <<result, encode_failed, sample_failed, temp_dirs, log_files,
                 frames_dir_exists>>
  /\ localsUnchanged /\ inputsUnchanged /\ rerunUnchanged

\* Lines 252-270, create_video_sample lines 144-146: the temporary
\* directory is made and the reference sample cut into it.
SampleOk ==
  /\ pc = "start"
  /\ pc' = "loop"
  /\ temp_dirs' = temp_dirs + 1
  /\ UNCHANGED <<result, exit_code, encode_failed, props_failed,
                 sample_failed, log_files, frames_dir_exists>>
  /\ localsUnchanged /\ inputsUnchanged /\ rerunUnchanged

\* Lines 252-268, create_video_sample lines 147-149: ffmpeg fails to cut
\* the sample, sys.exit(1) leaves the with block of line 265.
SampleFail ==
  /\ pc = "start"
  /\ pc' = "exit"
  /\ exit_code' = 1
  /\ sample_failed' = TRUE
  /\ temp_dirs' = TemporaryDirectoryExit(temp_dirs + 1, "exit")
  /\ UNCHANGED <<result, encode_failed, props_failed, log_files,
                 frames_dir_exists>>
  /\ localsUnchanged /\ inputsUnchanged /\ rerunUnchanged

\* Lines 271-283, encode_distorted_sample lines 168-184 (and 189-191):
\* the iteration picks its candidate and the encode succeeds.
EncodeOk ==
  /\ pc = "loop"
  /\ LoopContinues(i, max_iterations)
  /\ current_param' = Candidate(low_param, high_param)
  /\ i' = i + 1
  /\ encodes' = encodes + 1
  /\ probed' = Append(probed, Candidate(low_param, high_param))
  /\ bitrate_mbps' \in Bitrates
  /\ pc' = "encoded"
  /\ UNCHANGED <<low_param, high_param, best_param, vmaf_runs, result,
                 exit_code, encode_failed, props_failed, sample_failed,
                 estimated_full_video_size_mb, percentage_of_original,
                 save_frames_to, frame_saved, temp_dirs, log_files,
                 frames_dir_exists>>
  /\ inputsUnchanged /\ rerunUnchanged

\* Lines 271-283, encode_distorted_sample lines 186-188: ffmpeg fails,
\* sys.exit(1) leaves find_optimal_quality_param and main.
EncodeFail ==
  /\ pc = "loop"
  /\ LoopContinues(i, max_iterations)
  /\ current_param' = Candidate(low_param, high_param)
  /\ i' = i + 1
  /\ encodes' = encodes + 1
  /\ probed' = Append(probed, Candidate(low_param, high_param))
  /\ pc' = OnEncodeError.pc
  /\ exit_code' = OnEncodeError.exit_code
  /\ encode_failed' = TRUE
  /\ temp_dirs' = IF OnEncodeError.pc = "exit"
                  THEN TemporaryDirectoryExit(temp_dirs, "exit")
                  ELSE temp_dirs
  /\ UNCHANGED <<low_param, high_param, best_param, vmaf_runs, result,
                 props_failed, sample_failed, bitrate_mbps,
                 estimated_full_video_size_mb, percentage_of_original,
                 save_frames_to, frame_saved, log_files, frames_dir_exists>>
  /\ inputsUnchanged /\ rerunUnchanged

\* Lines 285-366: run_vmaf on the encoded sample, then the narrowing of the
\* domain, the update of best_param and the break or continue.
Narrow(score) ==
  LET lo == LowAfterProbe(score, low_param, current_param, target_vmaf)
      hi == HighAfterProbe(score, high_param, current_param, target_vmaf)
      estimate == EstimatedFullVideoSize(bitrate_mbps, duration)
  IN /\ vmaf_runs' = vmaf_runs + 1
     /\ log_files' = RunVmafLogFiles(log_files, score)
     /\ estimated_full_video_size_mb' = estimate
     /\ percentage_of_original' =
          PercentageOfOriginal(estimate, original_file_size_mb)
     /\ \E made \in BOOLEAN :
          /\ save_frames_to' =
               SaveFramesToAfterMakedirs(save_frames_to, frames_dir_exists,
                                         made)
          /\ frames_dir_exists' =
               FramesDirAfterMakedirs(save_frames_to, frames_dir_exists,
                                      made)
          /\ frame_saved' =
               SavesFrame(SaveFramesToAfterMakedirs(save_frames_to,
                                                    frames_dir_exists, made),
                          score, bitrate_mbps, estimate)
     /\ best_param' = BestAfterProbe(score, best_param, current_param,
                                     high_param, target_vmaf)
     /\ low_param' = lo
     /\ high_param' = hi
     /\ IF RangeCollapsed(lo, hi)
        THEN /\ pc' = "done"
             /\ result' = BestAfterProbe(score, best_param, current_param,
                                         high_param, target_vmaf)
             /\ temp_dirs' = TemporaryDirectoryExit(temp_dirs, "return")
        ELSE /\ pc' = "loop"
             /\ result' = result
             /\ temp_dirs' = temp_dirs
     /\ UNCHANGED <<i, current_param, bitrate_mbps, encodes, probed,
                    exit_code, encode_failed, props_failed, sample_failed>>
     /\ inputsUnchanged /\ rerunUnchanged

\* Lines 347-353: run_vmaf returned None.
VmafFailed ==
  /\ pc = "encoded"
  /\ probe_fn[current_param] = None
  /\ Narrow(probe_fn[current_param])

\* Lines 355-359, 364-366.
TargetMet ==
  /\ pc = "encoded"
  /\ probe_fn[current_param] # None
  /\ MeetsTarget(probe_fn[current_param], target_vmaf)
  /\ Narrow(probe_fn[current_param])

\* Lines 360-366.
TargetMissed ==
  /\ pc = "encoded"
  /\ probe_fn[current_param] # None
  /\ ~MeetsTarget(probe_fn[current_param], target_vmaf)
  /\ Narrow(probe_fn[current_param])

\* Lines 271, 368-369: the for loop ran max_iterations times.
LoopExhausted ==
  /\ pc = "loop"
  /\ ~LoopContinues(i, max_iterations)
  /\ pc' = "done"
  /\ result' = best_param
  /\ temp_dirs' = TemporaryDirectoryExit(temp_dirs, "return")
  /\ UNCHANGED <<exit_code, encode_failed, props_failed, sample_failed,
                 log_files, frames_dir_exists>>
  /\ localsUnchanged /\ inputsUnchanged /\ rerunUnchanged

\* A second call of find_optimal_quality_param with the same arguments,
\* but for search_precision, which is any of Precisions.
CallAgain ==
  /\ pc = "done"
  /\ run = 1
  /\ inputsUnchanged
  /\ search_precision' \in Precisions
  /\ UNCHANGED guiVars
  /\ run' = 2
  /\ first_result' = result
  /\ first_probed' = probed
  /\ first_bitrate' = bitrate_mbps
  /\ low_param' = StartLocals(init_min, init_max).low_param
  /\ high_param' = StartLocals(init_min, init_max).high_param
  /\ best_param' = StartLocals(init_min, init_max).best_param
  /\ i' = 0
  /\ current_param' = None
  /\ bitrate_mbps' = None
  /\ estimated_full_video_size_mb' = None
  /\ percentage_of_original' = None
  /\ save_frames_to' = arg_save_frames_to
  /\ pc' = "start"
  /\ encodes' = 0
  /\ vmaf_runs' = 0
  /\ probed' = << >>
  /\ result' = None
  /\ exit_code' = None
  /\ encode_failed' = FALSE
  /\ props_failed' = FALSE
  /\ sample_failed' = FALSE
  /\ frame_saved' = FALSE
  /\ UNCHANGED <<temp_dirs, log_files, frames_dir_exists>>

Next ==
  \/ PropsFail
  \/ SampleOk
  \/ SampleFail
  \/ EncodeOk
  \/ EncodeFail
  \/ VmafFailed
  \/ TargetMet
  \/ TargetMissed
  \/ LoopExhausted
  \/ CallAgain

Spec == Init /\ [][Next]_vars

\* ------------------------------------------------------------------------
\* AB_AV1_GUI (ab-av1-gui.py)
\* ------------------------------------------------------------------------
Files == 1..MaxQueue

\* The selections a file dialog can return: one or two files.
FileSelections == {<<f>> : f \in Files} \cup {<<f, g>> : f, g \in Files}

\* Removal of the entry at index k of a sequence (Listbox.delete).
Delete(q, k) == [j \in 1..(Len(q) - 1) |-> IF j < k THEN q[j] ELSE q[j + 1]]

\* subprocess.Popen.kill: a process that has exited is left as it is.
Kill(ps, k) ==
  IF ps[k].state = "running" THEN [ps EXCEPT ![k].state = "killed"] ELSE ps

\* Variant: the worker goes on as soon as the command is started.
WaitReturnsAtOnce(ps, k) == TRUE

\* Lines 238-241: the end of the output is read and wait() returns, once
\* the process has ended.
WaitReturns(ps, k) == ps[k].state # "running"

\* Lines 197-200: the worker goes on to take a file from the queue.
WorkerTakesNext(q, token) == q # << >> /\ ~token

\* The UI thread is between two handlers (the Tk event loop is idle).
UiIdle == stop_pc = "idle"

InitGui ==
  /\ init_min = QUALITY_PARAM_SEARCH_RANGE_MIN
  /\ init_max = QUALITY_PARAM_SEARCH_RANGE_MAX
  /\ target_vmaf = DEFAULT_TARGET_VMAF
  /\ max_iterations = MAX_ITERATIONS
  /\ probe_fn = [c \in init_min..init_max |-> None]
  /\ duration = 100
  /\ original_file_size_mb = 0
  /\ arg_save_frames_to = FALSE
  /\ frames_dir_exists = FALSE
  /\ temp_dirs = 0
  /\ log_files = 0
  /\ search_precision = SEARCH_PRECISION
  /\ StartSearch
  /\ run = 1
  /\ first_result = None
  /\ first_probed = << >>
  /\ first_bitrate = None
  /\ GuiConstructed

\* add_files, lines 122-131.
add_files ==
  /\ UiIdle
  /\ start_button
  /\ \E fs \in FileSelections :
       /\ Len(queue_listbox) + Len(fs) <= MaxQueue
       /\ queue_listbox' = IF is_encoding THEN queue_listbox
                           ELSE queue_listbox \o fs
  /\ UNCHANGED <<encoding_queue, is_encoding, current_process,
                 cancellation_token, start_button, stop_button, worker_pc,
                 input_path, files_processed, stop_pc, finish_posted, procs,
                 runs, queued_at_cancel>>
  /\ UNCHANGED searchVars

\* remove_selected, lines 133-142, with one entry selected.
remove_selected ==
  /\ UiIdle
  /\ start_button
  /\ \E k \in 1..Len(queue_listbox) :
       queue_listbox' = IF is_encoding THEN queue_listbox
                        ELSE Delete(queue_listbox, k)
  /\ UNCHANGED <<encoding_queue, is_encoding, current_process,
                 cancellation_token, start_button, stop_button, worker_pc,
                 input_path, files_processed, stop_pc, finish_posted, procs,
                 runs, queued_at_cancel>>
  /\ UNCHANGED searchVars

\* start_encoding, lines 144-176: the queue is filled from the listbox and a
\* worker thread is started.  Processes that have ended before this run
\* can change no more and are dropped from procs.
start_encoding ==
  /\ UiIdle
  /\ start_button
  /\ runs < MaxRuns
  /\ ~is_encoding
  /\ Len(queue_listbox) # 0
  /\ is_encoding' = TRUE
  /\ cancellation_token' = FALSE
  /\ encoding_queue' = encoding_queue \o queue_listbox
  /\ start_button' = FALSE
  /\ stop_button' = TRUE
  /\ worker_pc' = "while"
  /\ files_processed' = 0
  /\ runs' = runs + 1
  /\ queued_at_cancel' = None
  /\ procs' = SelectSeq(procs, LAMBDA p : p.state = "running")
  /\ UNCHANGED <<queue_listbox, current_process, input_path, stop_pc,
                 finish_posted>>
  /\ UNCHANGED searchVars

\* stop_encoding, lines 178-184: the token is set.  Without a run the
\* handler returns at once.
stop_request ==
  /\ UiIdle
  /\ stop_button
  /\ IF is_encoding
     THEN /\ cancellation_token' = TRUE
          /\ stop_pc' = "check"
          /\ queued_at_cancel' = Len(encoding_queue)
     ELSE UNCHANGED <<cancellation_token, stop_pc, queued_at_cancel>>
  /\ UNCHANGED <<queue_listbox, encoding_queue, is_encoding, current_process,
                 start_button, stop_button, worker_pc, input_path,
                 files_processed, finish_posted, procs, runs>>
  /\ UNCHANGED searchVars

\* stop_encoding, lines 185 and 192: current_process is read; when it is
\* None the handler only disables the button.
stop_check ==
  /\ stop_pc = "check"
  /\ IF current_process = None
     THEN /\ stop_button' = FALSE
          /\ stop_pc' = "idle"
     ELSE /\ stop_button' = stop_button
          /\ stop_pc' = "kill"
  /\ UNCHANGED <<queue_listbox, encoding_queue, is_encoding, current_process,
                 cancellation_token, start_button, worker_pc, input_path,
                 files_processed, finish_posted, procs, runs,
                 queued_at_cancel>>
  /\ UNCHANGED searchVars

\* stop_encoding, lines 186-192: current_process is read again and killed;
\* when the worker has reset it to None meanwhile, the AttributeError is
\* caught and logged.
stop_kill ==
  /\ stop_pc = "kill"
  /\ procs' = IF current_process = None THEN procs
              ELSE Kill(procs, current_process)
  /\ stop_button' = FALSE
  /\ stop_pc' = "idle"
  /\ UNCHANGED <<queue_listbox, encoding_queue, is_encoding, current_process,
                 cancellation_token, start_button, worker_pc, input_path,
                 files_processed, finish_posted, runs, queued_at_cancel>>
  /\ UNCHANGED searchVars

\* encoding_worker, lines 197-200: the loop head and the check of the
\* token.
worker_while ==
  /\ worker_pc = "while"
  /\ worker_pc' = IF WorkerTakesNext(encoding_queue, cancellation_token)
                  THEN "get" ELSE "finish"
  /\ UNCHANGED <<queue_listbox, encoding_queue, is_encoding, current_process,
                 cancellation_token, start_button, stop_button, input_path,
                 files_processed, stop_pc, finish_posted, procs, runs,
                 queued_at_cancel>>
  /\ UNCHANGED searchVars

\* encoding_worker, line 202: the next file is taken from the queue.
worker_get ==
  /\ worker_pc = "get"
  /\ input_path' = Head(encoding_queue)
  /\ encoding_queue' = Tail(encoding_queue)
  /\ worker_pc' = "popen"
  /\ UNCHANGED <<queue_listbox, is_encoding, current_process,
                 cancellation_token, start_button, stop_button,
                 files_processed, stop_pc, finish_posted, procs, runs,
                 queued_at_cancel>>
  /\ UNCHANGED searchVars

\* encoding_worker, lines 217-235: the command is started and stored in
\* current_process.
worker_popen ==
  /\ worker_pc = "popen"
  /\ procs' = Append(procs, [file |-> input_path, state |-> "running",
                             run |-> runs])
  /\ current_process' = Len(procs) + 1
  /\ worker_pc' = "read"
  /\ UNCHANGED <<queue_listbox, encoding_queue, is_encoding,
                 cancellation_token, start_button, stop_button, input_path,
                 files_processed, stop_pc, finish_posted, runs,
                 queued_at_cancel>>
  /\ UNCHANGED searchVars

\* encoding_worker, lines 226 and 257-261: Popen raises, the error is
\* logged and the loop goes on with the next file.
worker_popen_raises ==
  /\ worker_pc = "popen"
  /\ files_processed' = files_processed + 1
  /\ worker_pc' = "while"
  /\ UNCHANGED <<queue_listbox, encoding_queue, is_encoding, current_process,
                 cancellation_token, start_button, stop_button, input_path,
                 stop_pc, finish_posted, procs, runs, queued_at_cancel>>
  /\ UNCHANGED searchVars

\* encoding_worker, lines 238-242: the output is read to its end and the
\* process is waited for.
worker_wait ==
  /\ worker_pc = "read"
  /\ WaitReturns(procs, current_process)
  /\ worker_pc' = "clear"
  /\ UNCHANGED <<queue_listbox, encoding_queue, is_encoding, current_process,
                 cancellation_token, start_button, stop_button, input_path,
                 files_processed, stop_pc, finish_posted, procs, runs,
                 queued_at_cancel>>
  /\ UNCHANGED searchVars

\* encoding_worker, line 243.
worker_clear ==
  /\ worker_pc = "clear"
  /\ current_process' = None
  /\ worker_pc' = "after"
  /\ UNCHANGED <<queue_listbox, encoding_queue, is_encoding,
                 cancellation_token, start_button, stop_button, input_path,
                 files_processed, stop_pc, finish_posted, procs, runs,
                 queued_at_cancel>>
  /\ UNCHANGED searchVars

\* encoding_worker, lines 245-261: the token is checked after the process.
worker_after ==
  /\ worker_pc = "after"
  /\ IF cancellation_token
     THEN /\ worker_pc' = "finish"
          /\ files_processed' = files_processed
     ELSE /\ worker_pc' = "while"
          /\ files_processed' = files_processed + 1
  /\ UNCHANGED <<queue_listbox, encoding_queue, is_encoding, current_process,
                 cancellation_token, start_button, stop_button, input_path,
                 stop_pc, finish_posted, procs, runs, queued_at_cancel>>
  /\ UNCHANGED searchVars

\* encoding_worker, line 264: on_encoding_finished is posted to the UI
\* thread and the worker thread ends.
worker_finish ==
  /\ worker_pc = "finish"
  /\ finish_posted' = TRUE
  /\ worker_pc' = "dead"
  /\ UNCHANGED <<queue_listbox, encoding_queue, is_encoding, current_process,
                 cancellation_token, start_button, stop_button, input_path,
                 files_processed, stop_pc, procs, runs, queued_at_cancel>>
  /\ UNCHANGED searchVars

\* on_encoding_finished, lines 266-290.
on_encoding_finished ==
  /\ UiIdle
  /\ finish_posted
  /\ finish_posted' = FALSE
  /\ is_encoding' = FALSE
  /\ current_process' = None
  /\ cancellation_token' = FALSE
  /\ encoding_queue' = << >>
  /\ start_button' = TRUE
  /\ stop_button' = FALSE
  /\ UNCHANGED <<queue_listbox, worker_pc, input_path, files_processed,
                 stop_pc, procs, runs, queued_at_cancel>>
  /\ UNCHANGED searchVars

\* The external command ends by itself.  Its exit code only selects the
\* line the worker logs (lines 249-252) and is left out.
process_exits ==
  /\ \E k \in 1..Len(procs) :
       /\ procs[k].state = "running"
       /\ procs' = [procs EXCEPT ![k].state = "exited"]
  /\ UNCHANGED <<queue_listbox, encoding_queue, is_encoding, current_process,
                 cancellation_token, start_button, stop_button, worker_pc,
                 input_path, files_processed, stop_pc, finish_posted, runs,
                 queued_at_cancel>>
  /\ UNCHANGED searchVars

NextGui ==
  \/ add_files
  \/ remove_selected
  \/ start_encoding
  \/ stop_request
  \/ stop_check
  \/ stop_kill
  \/ worker_while
  \/ worker_get
  \/ worker_popen
  \/ worker_popen_raises
  \/ worker_wait
  \/ worker_clear
  \/ worker_after
  \/ worker_finish
  \/ on_encoding_finished
  \/ process_exits

SpecGui == InitGui /\ [][NextGui]_vars

\* ------------------------------------------------------------------------
\* Properties of the search
\* ------------------------------------------------------------------------
Returned == pc = "done"

\* The score of every parameter is present and never rises with the parameter.
Monotone(f) ==
  \A p, q \in DOMAIN f :
    /\ f[p] # None
    /\ p <= q => f[p] >= f[q]

\* The parameters of the initial domain whose score meets the target.
MeetingParams ==
  {p \in init_min..init_max :
     probe_fn[p] # None /\ MeetsTarget(probe_fn[p], target_vmaf)}

SetMax(S) == CHOOSE x \in S : \A y \in S : y <= x

\* Every probe made so far in this call had an absent score.
AllProbesAbsent == \A k \in 1..Len(probed) : probe_fn[probed[k]] = None

\* The call runs on the default domain [0, 51] with target 95 and the probe
\* 100 - candidate, with at least 6 iterations allowed.
DefaultScenario ==
  /\ init_min = QUALITY_PARAM_SEARCH_RANGE_MIN
  /\ init_max = QUALITY_PARAM_SEARCH_RANGE_MAX
  /\ target_vmaf = DEFAULT_TARGET_VMAF
  /\ probe_fn = [c \in init_min..init_max |-> 100 - c]
  /\ max_iterations >= 6

\* C1: with a monotonically non-increasing probe, once the domain has
\* collapsed the returned parameter is the highest parameter of the initial
\* domain whose score meets the target, if there is one.
C1_ReturnsHighestMeeting ==
  (/\ Returned
   /\ init_min <= init_max
   /\ Monotone(probe_fn)
   /\ low_param > high_param
   /\ MeetingParams # {})
  => result = SetMax(MeetingParams)

\* C2: for an initial domain with min <= max the returned parameter lies in
\* the initial domain, whatever the target, the iteration cap and the
\* outcomes of the probes.
C2_ResultInDomain ==
  (Returned /\ init_min <= init_max)
  => (init_min <= result /\ result <= init_max)

C2_Witness ==
  /\ Returned
  /\ init_min < init_max
  /\ encodes >= 2
  /\ result # init_max
  /\ result # init_min

\* C3: on [0, 51] with target 95 and score 100 - candidate the search
\* returns 5 after at most 6 probes.
C3_DefaultScenarioReturnsFive ==
  DefaultScenario =>
    /\ encodes <= 6
    /\ vmaf_runs <= 6
    /\ Returned => result = 5

C3_Witness ==
  /\ DefaultScenario
  /\ Returned
  /\ result = 5
  /\ encodes = 5
  /\ vmaf_runs = 5

\* C4: when every probe of the search had an absent score, the returned
\* parameter is the initial max.
C4_AllAbsentReturnsMax ==
  (Returned /\ init_min <= init_max /\ AllProbesAbsent)
  => result = init_max

C4_Witness ==
  /\ Returned
  /\ init_min < init_max
  /\ encodes >= 2
  /\ vmaf_runs = encodes
  /\ AllProbesAbsent
  /\ result = init_max

\* C5 as stated: a call on a domain with min = max returns after exactly
\* one probe (one encode, one score measurement) with that parameter.
C5_SingletonExactlyOneProbe ==
  (Returned /\ init_min = init_max)
  => (encodes = 1 /\ vmaf_runs = 1 /\ result = init_min)

\* C5 amended: on a domain with min = max the search makes one probe when
\* max_iterations >= 1 and none when max_iterations = 0, never a second
\* one, and what it returns is that parameter whatever the probe's outcome.
C5_SingletonOneProbeIfAny ==
  init_min = init_max =>
    /\ encodes <= 1
    /\ vmaf_runs <= encodes
    /\ Returned =>
         /\ result = init_min
         /\ encodes = (IF max_iterations >= 1 THEN 1 ELSE 0)
         /\ vmaf_runs = encodes

C5_Witness ==
  /\ Returned
  /\ init_min = init_max
  /\ max_iterations >= 2
  /\ encodes = 1
  /\ vmaf_runs = 1
  /\ probe_fn[init_min] = None
  /\ result = init_min

\* What a call with max_iterations = 0 or 1 returns, and what any call
\* returns: best_param.
CapResults ==
  /\ encodes <= max_iterations
  /\ vmaf_runs <= encodes
  /\ Returned =>
       /\ result = best_param
       /\ max_iterations = 0 => (encodes = 0 /\ result = init_max)
       /\ max_iterations = 1 =>
            /\ encodes = 1
            /\ result = (IF /\ probe_fn[probed[1]] # None
                            /\ MeetsTarget(probe_fn[probed[1]], target_vmaf)
                         THEN probed[1]
                         ELSE init_max)

\* C6 as stated: at most max_iterations probes, the results of CapResults,
\* and the call always returns: it never leaves by an exception.
C6_CappedAndNeverRaises ==
  /\ CapResults
  /\ pc # "exit"

\* C6 amended: at most max_iterations probes and the results of CapResults;
\* the call returns unless the probe of the video properties, the cut of
\* the reference sample or an encode step failed, and then the run has
\* ended with exit status 1.
C6_CappedAndRaisesOnlyOnEncodeError ==
  /\ CapResults
  /\ i <= max_iterations
  /\ pc = "exit" =>
       /\ encode_failed \/ props_failed \/ sample_failed
       /\ exit_code = 1
  /\ pc # "exit" =>
       /\ ~encode_failed /\ ~props_failed /\ ~sample_failed
       /\ exit_code = None

C6_Witness ==
  /\ Returned
  /\ max_iterations >= 2
  /\ i = max_iterations
  /\ low_param <= high_param
  /\ result # init_max

\* C7: an iteration that starts on a domain of two adjacent values
\* {a, a+1} probes a.
C7_AdjacentPairProbesLower ==
  ((pc = "encoded" \/ encode_failed) /\ low_param + 1 = high_param)
  => current_param = low_param

C7_Witness ==
  /\ pc = "encoded"
  /\ low_param + 1 = high_param
  /\ current_param = low_param
  /\ encodes >= 2

C9_EncodeFailureIsFatal ==
  encode_failed =>
    /\ pc = "exit"
    /\ exit_code # None
    /\ exit_code # 0
    /\ vmaf_runs = encodes - 1
    /\ Len(probed) = encodes
    /\ result = None
    /\ ~ENABLED Next

C9_Witness ==
  /\ encode_failed
  /\ pc = "exit"
  /\ exit_code = 1
  /\ encodes >= 2
  /\ vmaf_runs = encodes - 1

\* ------------------------------------------------------------------------
\* Properties of the GUI
\* ------------------------------------------------------------------------
\* An external process started in the current run is running.
CurrentRunProcessRunning ==
  \E k \in 1..Len(procs) :
    procs[k].run = runs /\ procs[k].state = "running"

\* C10: once stop_encoding has run during an active run, no external
\* process of that run is left running: the process of the file being
\* processed has been killed (or had ended by itself).
C10_CancelKillsProcess ==
  (is_encoding /\ cancellation_token /\ stop_pc = "idle")
  => ~CurrentRunProcessRunning

\* The worker thread of encoding_worker exists.
WorkerAlive == worker_pc \notin {"none", "dead"}

\* The external processes that are running.
RunningProcs == {k \in 1..Len(procs) : procs[k].state = "running"}

\* The processes started in the current run, in the order of their start.
RunProcs == SelectSeq(procs, LAMBDA p : p.run = runs)

\* The files of the processes started in the current run.
RunFiles == [k \in 1..Len(RunProcs) |-> RunProcs[k].file]

\* The entries of the listbox the worker has taken from the queue so far.
Dequeued == Len(queue_listbox) - Len(encoding_queue)

RECURSIVE IsSubSeq(_, _)
\* a can be had from b by leaving entries out.
IsSubSeq(a, b) ==
  IF a = << >> THEN TRUE
  ELSE IF b = << >> THEN FALSE
  ELSE IF Head(a) = Head(b) THEN IsSubSeq(Tail(a), Tail(b))
  ELSE IsSubSeq(a, Tail(b))

\* C11: the queue is processed strictly sequentially.  A worker thread
\* exists only during a run, in which start_encoding accepts no second one;
\* at most one external process is running, it is the one the worker is
\* reading from, so that a command is started only when every earlier
\* process has ended; and the files started in a run are entries of the
\* listbox in their order, each entry taken from the queue started at most
\* once.
C11_SequentialProcessing ==
  /\ WorkerAlive => (is_encoding /\ ~start_button)
  /\ Cardinality(RunningProcs) <= 1
  /\ \A k \in RunningProcs :
       k = Len(procs) /\ worker_pc = "read" /\ current_process = k
  /\ WorkerAlive =>
       /\ Dequeued >= 0
       /\ encoding_queue =
            SubSeq(queue_listbox, Dequeued + 1, Len(queue_listbox))
       /\ Len(RunProcs) <= Dequeued
       /\ IsSubSeq(RunFiles, SubSeq(queue_listbox, 1, Dequeued))
       /\ worker_pc = "popen" => input_path = queue_listbox[Dequeued]
       /\ worker_pc \in {"read", "clear", "after"} =>
            RunProcs[Len(RunProcs)].file = queue_listbox[Dequeued]

C11_Witness ==
  /\ is_encoding
  /\ worker_pc = "read"
  /\ Len(queue_listbox) = 2
  /\ queue_listbox[1] # queue_listbox[2]
  /\ Len(RunProcs) = 2
  /\ RunFiles = queue_listbox
  /\ RunProcs[1].state = "exited"
  /\ RunProcs[2].state = "running"

\* C16: once the token has been set during a run, the worker starts no
\* command for a file that was still in the queue at that moment: the file
\* of a command started under a set token had left the queue before.
C16_NoCommandForQueuedFileAfterCancel ==
  (/\ is_encoding
   /\ cancellation_token
   /\ worker_pc \in {"read", "clear", "after"})
  => Len(encoding_queue) >= queued_at_cancel

\* ------------------------------------------------------------------------
\* The size estimate, the frames and the temporary files of the search
\* ------------------------------------------------------------------------
\* An iteration of this call has run lines 288-344 on bitrate_mbps.
EstimateDone == pc # "encoded" /\ vmaf_runs >= 1

\* C12: after an iteration with a bitrate the estimate is
\* bitrate * duration / 8; the percentage is estimate / original * 100 when
\* the original size is positive and absent otherwise; bitrate 8, duration
\* 100 and original size 50 give 100 and 200.
C12_SizeEstimate ==
  (EstimateDone /\ bitrate_mbps # None) =>
    /\ estimated_full_video_size_mb * 8 = bitrate_mbps * duration
    /\ original_file_size_mb > 0 =>
         percentage_of_original * original_file_size_mb
           = estimated_full_video_size_mb * 100
    /\ original_file_size_mb <= 0 => percentage_of_original = None
    /\ (bitrate_mbps = 8 /\ duration = 100 /\ original_file_size_mb = 50) =>
         /\ estimated_full_video_size_mb = 100
         /\ percentage_of_original = 200

C12_Witness ==
  /\ EstimateDone
  /\ bitrate_mbps = 8
  /\ duration = 100
  /\ original_file_size_mb = 50
  /\ estimated_full_video_size_mb = 100
  /\ percentage_of_original = 200

\* C13 as stated: a candidate is handed to the encoder only while
\* low_param <= high_param, an initial domain with min > max included.
\* (low_param and high_param keep the values the candidate was taken from
\* until run_vmaf has returned.)
C13_ProbesOnlyWhileMinLeMax ==
  (pc = "encoded" \/ encode_failed) => low_param <= high_param

\* ------------------------------------------------------------------------
\* The narrowing of the domain
\* ------------------------------------------------------------------------
\* The probe of candidate c met the target.
ProbeMet(c) == probe_fn[c] # None /\ MeetsTarget(probe_fn[c], target_vmaf)

\* p is the initial max or a candidate probed in this call whose score met
\* the target.
SentinelOrMet(p) ==
  \/ p = init_max
  \/ \E k \in 1..Len(probed) :
       /\ probed[k] = p
       /\ ProbeMet(p)
       /\ (k < Len(probed) \/ pc # "encoded")

\* The step in which run_vmaf returns and the iteration ends.
ProbeStep == pc = "encoded" /\ vmaf_runs' = vmaf_runs + 1

\* C14: best_param, and so the parameter returned, is the initial max or a
\* candidate whose probe in this call scored at least the target; an
\* iteration whose probe scored below the target or gave no score leaves
\* best_param unchanged.
C14_BestIsSentinelOrMet ==
  /\ [](SentinelOrMet(best_param) /\ (Returned => SentinelOrMet(result)))
  /\ [][(ProbeStep /\ ~ProbeMet(current_param))
        => best_param' = best_param]_vars

C14_Witness ==
  /\ Returned
  /\ Len(probed) >= 2
  /\ result = probed[1]
  /\ result # init_max
  /\ ~ProbeMet(probed[Len(probed)])

\* The step of an iteration whose probe gave no score.
AbsentStep == ProbeStep /\ probe_fn[current_param] = None

\* Lines 349-352 on an absent score: min, max, best_param, and the break
\* with the return of best_param when the new min exceeds max.
AbsentNarrows ==
  /\ low_param' = current_param + 1
  /\ high_param' = high_param
  /\ best_param' = best_param
  /\ low_param' > high_param' => (pc' = "done" /\ result' = best_param)

\* C15 as stated: after an absent score min = candidate + 1, max and
\* best_param are unchanged, and unless the new min > max (stop, return
\* best_param) the next iteration follows.
C15_AbsentAdvancesMinAndContinues ==
  [][AbsentStep =>
       /\ AbsentNarrows
       /\ low_param' <= high_param' =>
            (pc' = "loop" /\ LoopContinues(i', max_iterations))]_vars

\* C15 amended: as above, but the next iteration follows only when fewer
\* than max_iterations iterations have run; at the cap the search returns
\* the best_param held so far.
C15_AbsentAdvancesMinUnderCap ==
  /\ [][AbsentStep =>
          /\ AbsentNarrows
          /\ low_param' <= high_param' => (pc' = "loop" /\ result' = None)
       ]_vars
  /\ [][pc = "loop" =>
          IF LoopContinues(i, max_iterations)
          THEN /\ pc' \in {"encoded", "exit"}
               /\ i' = i + 1
               /\ current_param' = Candidate(low_param, high_param)
          ELSE /\ pc' = "done"
               /\ result' = best_param]_vars

C15_Witness ==
  /\ pc = "encoded"
  /\ encodes = 2
  /\ probe_fn[probed[1]] = None
  /\ low_param = probed[1] + 1
  /\ high_param = init_max
  /\ best_param = init_max

\* The call has ended, by its return or by sys.exit.
Ended == pc \in {"done", "exit"}

\* C17: when a call has ended - by the return after the collapse of the
\* domain or after max_iterations iterations, or by sys.exit(1) after a
\* failed probe of the properties, a failed cut of the sample or a failed
\* encode - no temporary directory and no log file of run_vmaf is left;
\* while it runs there is at most its one directory, and no log file
\* outlives its measurement.
C17_TemporaryFilesDeleted ==
  /\ Ended => temp_dirs = 0
  /\ ~Ended => temp_dirs = (IF pc = "start" THEN 0 ELSE 1)
  /\ log_files = 0

C17_Witness ==
  /\ run = 2
  /\ first_probed # << >>
  /\ pc = "exit"
  /\ encode_failed
  /\ vmaf_runs >= 1
  /\ temp_dirs = 0
  /\ log_files = 0

\* C18: an iteration whose encode returned no bitrate still runs run_vmaf
\* and leaves no size estimate, no percentage and no frame; a second call
\* with the same scores returns the same parameter after the same
\* candidates whatever bitrates the encodes of the two calls returned.
C18_UnparsableBitrateOnlyDropsEstimate ==
  /\ (EstimateDone /\ bitrate_mbps = None) =>
       /\ estimated_full_video_size_mb = None
       /\ percentage_of_original = None
       /\ ~frame_saved
  /\ (pc \in {"loop", "done"}) => vmaf_runs = encodes
  /\ (run = 2 /\ Ended) =>
       /\ probed = SubSeq(first_probed, 1, Len(probed))
       /\ Returned => (probed = first_probed /\ result = first_result)

C18_Witness ==
  /\ run = 2
  /\ Returned
  /\ first_bitrate = 8
  /\ bitrate_mbps = None
  /\ Len(probed) >= 2
  /\ probed = first_probed
  /\ result = first_result
  /\ vmaf_runs = encodes
  /\ save_frames_to
  /\ ~frame_saved
  /\ estimated_full_video_size_mb = None

\* The measured probes of this call that met the target, by position.
MetIdx == {k \in 1..vmaf_runs : ProbeMet(probed[k])}
FirstMet == probed[CHOOSE k \in MetIdx : \A j \in MetIdx : k <= j]

\* C19: once a probe of this call has met the target, best_param is the
\* first candidate that did; every candidate after it is larger; in each
\* later iteration the condition of line 356 is false and best_param stays;
\* the call returns that first candidate.
C19_FirstMeetingCandidateIsKept ==
  /\ [](MetIdx # {} =>
          /\ best_param = FirstMet
          /\ \A j \in 1..Len(probed) :
               (\E k \in MetIdx : k < j) => probed[j] > best_param
          /\ Returned => result = FirstMet)
  /\ [][(ProbeStep /\ MetIdx # {}) =>
          /\ ~(current_param < best_param \/ best_param = high_param)
          /\ best_param' = best_param]_vars

C19_Witness ==
  /\ Returned
  /\ Cardinality(MetIdx) >= 2
  /\ result = probed[1]
  /\ ProbeMet(probed[Len(probed)])
  /\ probed[Len(probed)] > result

\* C20: from an initial domain with min <= max, the candidate of every
\* iteration lies in the domain it was taken from, every measured
\* iteration leaves a domain inside and smaller than the one before, no
\* value is probed twice, and at most max - min + 1 probes are made
\* whatever max_iterations is.
C20_DomainShrinksNoRepeat ==
  /\ [](init_min <= init_max =>
          /\ (pc = "encoded" \/ encode_failed) =>
               (low_param <= current_param /\ current_param <= high_param)
          /\ \A j, k \in 1..Len(probed) : j # k => probed[j] # probed[k]
          /\ encodes <= init_max - init_min + 1)
  /\ [][(init_min <= init_max /\ ProbeStep) =>
          /\ low_param' >= low_param
          /\ high_param' <= high_param
          /\ high_param' - low_param' < high_param - low_param]_vars

C20_Witness ==
  /\ Returned
  /\ init_min < init_max
  /\ encodes = init_max - init_min + 1
  /\ encodes < max_iterations
  /\ low_param > high_param

\* ------------------------------------------------------------------------
\* search_precision
\* ------------------------------------------------------------------------
\* The score of candidate c lies within precision p (in halves of a point)
\* of the target.
WithinPrecision(c, p) ==
  /\ probe_fn[c] # None
  /\ 2 * (probe_fn[c] - target_vmaf) <= p
  /\ 2 * (target_vmaf - probe_fn[c]) <= p

\* C21: a second call that differs from the first in search_precision only
\* hands the same candidates in the same order to the encoder and returns
\* the same parameter; and a call returns only when the domain has
\* collapsed or max_iterations iterations have run, never because a score
\* lies close to the target.
C21_SearchPrecisionHasNoEffect ==
  /\ run = 2 =>
       /\ Len(probed) <= Len(first_probed)
       /\ \A k \in 1..Len(probed) : probed[k] = first_probed[k]
       /\ Returned => (Len(probed) = Len(first_probed)
                       /\ result = first_result)
  /\ Returned =>
       (low_param > high_param \/ ~LoopContinues(i, max_iterations))

C21_Witness ==
  /\ run = 2
  /\ Returned
  /\ search_precision # SEARCH_PRECISION
  /\ Len(probed) >= 2
  /\ WithinPrecision(probed[1], search_precision)
  /\ probed = first_probed
  /\ result = first_result

====
